---- MODULE Spec2Model ----
(***************************************************************************)
(* Wellhead telemetry: the polling and ingestion loop of                   *)
(* database_ingestion.py, the register-map gateway src/modbus_gateway.py   *)
(* (its start-up, its relay thread data_updater_thread with the simulator  *)
(* it spawns, and the reads its server answers) and the register codec     *)
(* shared by the two, as state machines.                                   *)
(***************************************************************************)
EXTENDS Integers, Sequences, FiniteSets, TLC

\* ------------------------------------------------------------------ bounds
\* Wellheads polled per cycle (the source's NUMBER_OF_WELLHEADS is 5; the
\* loop body is the same for every index).
NUMBER_OF_WELLHEADS == 2
\* Poll cycles a behaviour may start.
MaxCycles == 3
\* Faults (failed connects, failed reads, failed writes) the environment may inject.
MaxFaults == 2
\* Largest reading of the wall clock used for timestamps.
MaxTime == 1
\* Largest measured duration of one poll cycle, in seconds.
MaxElapsed == 45
\* Rows the metadata store may hold.
MaxRows == 2
\* Distance around each anchor value from which encoder inputs are drawn.
CodecSpread == 2
\* Lines the simulator prints in one run.
MaxLines == 2
\* Parameters of a wellhead in the simulator's metadata.
MaxSimParams == 2
\* Cycles run_simulation may begin.
MaxSimCycles == 2
\* Parameters of the parameters.json the block-layout gateway is run with.
MaxBlockParams == 3

\* --------------------------------------------------------- program constants
POLL_INTERVAL == 30
REGISTERS_PER_WELLHEAD == 50
BACKOFF_SECONDS == 10
\* Registers allocated by run_modbus_server: addresses 0 .. STORE_SIZE - 1.
STORE_SIZE == 1000

VARIABLES
    \* database_ingestion.main
    pc,                 \* position of main in its loops
    conn,               \* the local conn: "unbound", "open" or "closed"
    open_conns,         \* storage connections currently open at the server
    client_sock,        \* socket of the Modbus client: "open" or "closed"
    connect_ret,        \* what the last client.connect() returned (discarded by main)
    parameter_config,   \* contents of parameters.json
    hr,                 \* holding registers written so far (address -> word); others are 0
    i,                  \* index of the for loop over wellheads
    records_to_insert,  \* the batch of the running cycle
    current_timestamp,  \* the timestamp of the running cycle
    pending,            \* rows executed in the open transaction, not committed
    persisted,          \* rows committed to wellhead_readings
    now,                \* wall clock
    elapsed,            \* time.time() - start_time as last measured in this cycle
    sleep_arg,          \* argument of the time.sleep call in progress, 0 when none
    exc,                \* the exception being handled, "none" otherwise
    read_errors,        \* wellhead indexes whose read gave an error result in this cycle
    cycles,             \* poll cycles started
    faults,             \* faults injected so far
    \* src/modbus_gateway.py
    gw_pc,              \* position of the gateway's main thread
    db_rows,            \* rows the mapping query joins over
    mappings,           \* result of cursor.fetchall()
    row,                \* rows of mappings already inserted into temp_map
    temp_map,           \* local temp_map of build_register_map
    register_map,       \* global register_map
    server_context,     \* global server_context: "None" or "created"
    updater,            \* relay thread: "not_started" or "running"
    \* src/modbus_gateway.py, data_updater_thread and the simulator it spawns
    relay_pc,           \* position of data_updater_thread in its loop
    relay_exc,          \* the exception that ended the relay thread and what caused it
    sim,                \* the simulator process: "running" or "exited"
    script,             \* lines the simulator has still to print
    pipe,               \* lines printed and not yet read by readline()
    msg,                \* wellhead_data_list of the line being processed
    msg_hr,             \* the store as it was when that line was read
    dp,                 \* index of data_point in msg
    pk,                 \* index of the (param_code, value) item in data_point
    wpos,               \* words of the current payload already stored
    written,            \* addresses the relay has stored a word at
    hist,               \* register address -> payloads the relay has stored there
    client_read,        \* last reply to a client's read_holding_registers
    \* the codec: the gateway's encoder followed by the ingestion decoder
    codec_pc,           \* "input", "encoded" or "decoded"
    codec_kind,         \* the mapped type of the value
    codec_value,        \* the value handed to the encoder
    codec_regs,         \* builder.to_registers()
    codec_out,          \* what the decoder returns for codec_regs
    \* wellhead_simulator.py, run_simulation
    sim_pc,             \* position of the simulator in run_simulation
    sim_config,         \* config: the wellheads and their parameters, in order
    sim_w,              \* index of the wellhead of the for loop over config
    sim_p,              \* index of the parameter of the inner for loop
    all_data,           \* frames built in the running cycle
    sim_point,          \* data_point["parameters"] of the frame being built
    printed,            \* the line printed in the running cycle, <<>> when none
    sim_cycles,         \* cycles begun
    sim_lines,          \* lines printed
    \* the block-layout gateway (modbus_gateway.py beside database_ingestion.py)
    blk_pc,             \* "frame", "stored", "read" or "dead"
    wellhead_index,     \* wellhead_index of the frame
    wellhead_data       \* its parameters in configuration order: a value or None

vars_ingest == <<pc, conn, open_conns, client_sock, connect_ret, parameter_config, hr, i,
                 records_to_insert, current_timestamp, pending, persisted, now, elapsed,
                 sleep_arg, exc, read_errors, cycles, faults>>
vars_gw == <<gw_pc, db_rows, mappings, row, temp_map, register_map, server_context, updater>>
vars_relay == <<relay_pc, relay_exc, sim, script, pipe, msg, msg_hr, dp, pk, wpos, written,
                hist, client_read>>
vars_codec == <<codec_pc, codec_kind, codec_value, codec_regs, codec_out>>
vars_sim == <<sim_pc, sim_config, sim_w, sim_p, all_data, sim_point, printed, sim_cycles,
              sim_lines>>
vars_block == <<blk_pc, wellhead_index, wellhead_data>>
vars == <<pc, conn, open_conns, client_sock, connect_ret, parameter_config, hr, i,
          records_to_insert, current_timestamp, pending, persisted, now, elapsed,
          sleep_arg, exc, read_errors, cycles, faults,
          gw_pc, db_rows, mappings, row, temp_map, register_map, server_context, updater,
          relay_pc, relay_exc, sim, script, pipe, msg, msg_hr, dp, pk, wpos, written, hist,
          client_read, codec_pc, codec_kind, codec_value, codec_regs, codec_out,
          sim_pc, sim_config, sim_w, sim_p, all_data, sim_point, printed, sim_cycles,
          sim_lines, blk_pc, wellhead_index, wellhead_data>>

\* ------------------------------------------------------------------ helpers
\* Clock readings a blocking call may return to: time does not run backwards.
Advance == {now} \cup {t \in {now + 1} : t <= MaxTime}

\* parameters.json files the service may be started with.
ParamConfigs ==
    { << [name |-> "Tubing Head Pressure", type |-> "float"],
         [name |-> "Choke Position", type |-> "integer"],
         [name |-> "SDV Status", type |-> "boolean"] >>,
      << [name |-> "Tubing Head Pressure", type |-> "float"],
         [name |-> "SDV Status", type |-> "bool"] >> }

SupportedTypes == {"float", "integer", "boolean"}

\* Every parameter of the parameter file has a type the decoder knows.
Decodable == \A k \in 1..Len(parameter_config) : parameter_config[k].type \in SupportedTypes

\* A store whose registers start with all bits set.
AllOnesRegister(a) == 65535

\* ModbusSequentialDataBlock(0, [0] * 1000): what a register holds at start.
InitialRegister(a) == 0

\* Content of one holding register: the word last stored, else the initial one.
Reg(a) == IF a \in DOMAIN hr THEN hr[a] ELSE InitialRegister(a)

\* client.read_holding_registers(base_address, count): the registers of a good reply.
ReadRegisters(base_address, count) == [k \in 1..count |-> Reg(base_address + k - 1)]

\* A decoder with wordorder big: registers[p] is read as the high word.
DecodeHighWordFirst(registers, p) ==
    LET hi == registers[p]
        lo == registers[p + 1]
    IN  IF hi >= 32768 THEN (hi - 65536) * 65536 + lo ELSE hi * 65536 + lo

\* decode_32bit_int with wordorder little: registers[p] is the low word,
\* registers[p + 1] the high word of a two's complement 32-bit integer
\* (the high word carries the sign: the sum is formed without leaving 32 bits).
Decode32BitInt(registers, p) ==
    LET lo == registers[p]
        hi == registers[p + 1]
    IN  IF hi >= 32768 THEN (hi - 65536) * 65536 + lo ELSE hi * 65536 + lo

\* decode_32bit_float: the single-precision number with this bit pattern,
\* given as its high and low words.
Decode32BitFloat(registers, p) == <<registers[p + 1], registers[p]>>

\* The loop over parameter_config of one wellhead: the decoder's pointer moves
\* only when a value is decoded; a parameter of another type gets no entry.
RECURSIVE DecodeFrom(_, _, _, _)
DecodeFrom(registers, config, k, p) ==
    IF k > Len(config) THEN <<>>
    ELSE LET t == config[k].type
         IN  IF t = "float"
             THEN <<[kind |-> "float", bits |-> Decode32BitFloat(registers, p)]>>
                  \o DecodeFrom(registers, config, k + 1, p + 2)
             ELSE IF t = "integer"
             THEN <<[kind |-> "int", v |-> Decode32BitInt(registers, p)]>>
                  \o DecodeFrom(registers, config, k + 1, p + 2)
             ELSE IF t = "boolean"
             THEN <<[kind |-> "bool", v |-> Decode32BitInt(registers, p) # 0]>>
                  \o DecodeFrom(registers, config, k + 1, p + 2)
             ELSE <<[kind |-> "missing"]>> \o DecodeFrom(registers, config, k + 1, p)

DecodedData(registers, config) == DecodeFrom(registers, config, 1, 1)

\* record_values = [decoded_data[col] for col in column_names] raises KeyError
\* when a column has no entry.
RaisesKeyError(decoded) == \E k \in 1..Len(decoded) : decoded[k].kind = "missing"

\* datetime.utcnow(): the current UTC time as a datetime without tzinfo.
UtcNow(t) == [t |-> t, tzinfo |-> "None"]

WellheadId(idx) == <<"WH", idx + 1>>

\* ------------------------------------------------- database_ingestion.main

\* The environment may still inject a fault.
MayFail == faults < MaxFaults

\* A handler that names the storage driver's exceptions only.
HandlesStorageOnly(kind) == kind \in {"OperationalError", "InterfaceError", "DatabaseError"}

\* except Exception: every exception raised in the try body is caught.
Handles(kind) == TRUE

\* Where control goes when the try body raises.
RaisedPc(kind) == IF Handles(kind) THEN "handler" ELSE "exited"

\* psycopg2.connect(...) and conn.cursor()
ConnectDb ==
    /\ pc = "connect_db"
    /\ UNCHANGED <<vars_gw, vars_relay, vars_codec, vars_sim, vars_block>>
    /\ \/ /\ conn' = "open"
          /\ open_conns' = open_conns + 1
          /\ pending' = <<>>
          /\ pc' = "connect_modbus"
          /\ UNCHANGED <<exc, faults>>
       \/ /\ MayFail
          /\ faults' = faults + 1
          /\ exc' = "OperationalError"
          /\ pc' = RaisedPc("OperationalError")
          /\ UNCHANGED <<conn, open_conns, pending>>
       \/ /\ MayFail
          /\ faults' = faults + 1
          /\ conn' = "open"
          /\ open_conns' = open_conns + 1
          /\ pending' = <<>>
          /\ exc' = "InterfaceError"
          /\ pc' = RaisedPc("InterfaceError")
    /\ UNCHANGED <<client_sock, connect_ret, parameter_config, hr, i, records_to_insert,
                   current_timestamp, persisted, now, elapsed, sleep_arg, read_errors, cycles>>

\* client.connect(): its result is not looked at.
ConnectModbus ==
    /\ pc = "connect_modbus"
    /\ UNCHANGED <<vars_gw, vars_relay, vars_codec, vars_sim, vars_block>>
    /\ \/ /\ client_sock' = "open"
          /\ connect_ret' = TRUE
          /\ UNCHANGED faults
       \/ /\ MayFail
          /\ faults' = faults + 1
          /\ client_sock' = "closed"
          /\ connect_ret' = FALSE
    /\ pc' = "cycle_start"
    /\ UNCHANGED <<conn, open_conns, parameter_config, hr, i, records_to_insert,
                   current_timestamp, pending, persisted, now, elapsed, sleep_arg, exc, read_errors, cycles>>

\* start_time = time.time(); records_to_insert = []; current_timestamp = utcnow()
\* (nothing has elapsed of the cycle that starts)
StartCycle ==
    /\ pc = "cycle_start"
    /\ UNCHANGED <<vars_gw, vars_relay, vars_codec, vars_sim, vars_block>>
    /\ cycles < MaxCycles
    /\ cycles' = cycles + 1
    /\ read_errors' = {}
    /\ elapsed' = 0
    /\ records_to_insert' = <<>>
    /\ current_timestamp' = UtcNow(now)
    /\ i' = 0
    /\ pc' = IF NUMBER_OF_WELLHEADS > 0 THEN "read" ELSE "write"
    /\ UNCHANGED <<conn, open_conns, client_sock, connect_ret, parameter_config, hr,
                   pending, persisted, now, sleep_arg, exc, faults>>

\* A timestamp taken when the record is built.
PerReadingTimestamp(cycle_ts, clock) == UtcNow(clock)

\* The timestamp put into a record.
RecordTimestamp(cycle_ts, clock) == cycle_ts

\* The record appended for wellhead idx.
Record(idx, decoded, clock) ==
    [time |-> RecordTimestamp(current_timestamp, clock),
     wellhead_id |-> WellheadId(idx),
     values |-> decoded]

\* The batch after the read of one wellhead came back as an error result.
AfterReadError(batch) == batch

\* Where the loop goes after the body for index idx.
LoopPc(idx) == IF idx + 1 < NUMBER_OF_WELLHEADS THEN "read" ELSE "write"

\* An error result that leaves the loop (break).
BreakOnReadError(idx) == "write"

\* Where an error result sends the loop: continue.
ReadErrorPc(idx) == LoopPc(idx)

\* One pass of the body of "for i in range(NUMBER_OF_WELLHEADS)": read the block
\* of wellhead i, decode it, append its record. A read on a closed socket makes
\* the client try to connect again before it sends.
ReadWellhead ==
    /\ pc = "read"
    /\ UNCHANGED <<vars_gw, vars_relay, vars_codec, vars_sim, vars_block>>
    /\ now' \in Advance
    /\ LET base_address == i * REGISTERS_PER_WELLHEAD
           registers == ReadRegisters(base_address, Len(parameter_config) * 2)
           decoded == DecodedData(registers, parameter_config)
       IN  \/ /\ ~RaisesKeyError(decoded)
              /\ client_sock' = "open"
              /\ records_to_insert' = Append(records_to_insert, Record(i, decoded, now'))
              /\ i' = i + 1
              /\ pc' = LoopPc(i)
              /\ UNCHANGED <<exc, faults, read_errors>>
           \/ /\ RaisesKeyError(decoded)
              /\ client_sock' = "open"
              /\ exc' = "KeyError"
              /\ pc' = RaisedPc("KeyError")
              /\ UNCHANGED <<records_to_insert, i, faults, read_errors>>
           \/ /\ MayFail
              /\ faults' = faults + 1
              /\ client_sock' \in {"open", "closed"}
              /\ records_to_insert' = AfterReadError(records_to_insert)
              /\ i' = i + 1
              /\ pc' = ReadErrorPc(i)
              /\ read_errors' = read_errors \cup {i}
              /\ UNCHANGED exc
           \/ /\ MayFail
              /\ faults' = faults + 1
              /\ client_sock' \in {"open", "closed"}
              /\ exc' = "ConnectionException"
              /\ pc' = RaisedPc("ConnectionException")
              /\ UNCHANGED <<records_to_insert, i, read_errors>>
    /\ UNCHANGED <<conn, open_conns, connect_ret, parameter_config, hr, current_timestamp,
                   pending, persisted, elapsed, sleep_arg, cycles>>

\* A connection in autocommit mode: every executed row is persisted at once.
AutocommitOnExecute(table, rows) == table \o rows

\* Rows of wellhead_readings after statements were executed and before commit:
\* the connection is not in autocommit mode.
PersistOnExecute(table, rows) == table

\* if records_to_insert: execute_batch(cursor, insert_sql, records_to_insert)
WriteBatch ==
    /\ pc = "write"
    /\ UNCHANGED <<vars_gw, vars_relay, vars_codec, vars_sim, vars_block>>
    /\ \/ /\ records_to_insert = <<>>
          /\ pc' = "cadence"
          /\ UNCHANGED <<conn, open_conns, pending, persisted, exc, faults>>
       \/ /\ records_to_insert # <<>>
          /\ pending' = pending \o records_to_insert
          /\ persisted' = PersistOnExecute(persisted, records_to_insert)
          /\ pc' = "commit"
          /\ UNCHANGED <<conn, open_conns, exc, faults>>
       \/ /\ records_to_insert # <<>>
          /\ MayFail
          /\ faults' = faults + 1
          /\ \E k \in 0..(Len(records_to_insert) - 1) :
               /\ persisted' = PersistOnExecute(persisted, SubSeq(records_to_insert, 1, k))
               /\ \/ /\ conn' = "open"
                     /\ pending' = pending \o SubSeq(records_to_insert, 1, k)
                     /\ UNCHANGED open_conns
                  \/ /\ conn' = "closed"
                     /\ pending' = <<>>
                     /\ open_conns' = open_conns - 1
          /\ exc' = "DatabaseError"
          /\ pc' = RaisedPc("DatabaseError")
    /\ UNCHANGED <<client_sock, connect_ret, parameter_config, hr, i, records_to_insert,
                   current_timestamp, now, elapsed, sleep_arg, read_errors, cycles>>

\* conn.commit()
Commit ==
    /\ pc = "commit"
    /\ UNCHANGED <<vars_gw, vars_relay, vars_codec, vars_sim, vars_block>>
    /\ \/ /\ persisted' = persisted \o pending
          /\ pending' = <<>>
          /\ pc' = "cadence"
          /\ UNCHANGED <<conn, open_conns, exc, faults>>
       \/ /\ MayFail
          /\ faults' = faults + 1
          /\ pending' = <<>>
          /\ \/ /\ conn' = "open"
                /\ UNCHANGED open_conns
             \/ /\ conn' = "closed"
                /\ open_conns' = open_conns - 1
          /\ exc' = "OperationalError"
          /\ pc' = RaisedPc("OperationalError")
          /\ UNCHANGED persisted
    /\ UNCHANGED <<client_sock, connect_ret, parameter_config, hr, i, records_to_insert,
                   current_timestamp, now, elapsed, sleep_arg, read_errors, cycles>>

\* Durations the cycle may be measured to have taken.
ElapsedChoices == {0, POLL_INTERVAL - 1, POLL_INTERVAL, POLL_INTERVAL + 1, MaxElapsed}

\* The subtraction with its operands swapped.
ElapsedMinusInterval(e) == e - POLL_INTERVAL

\* time_to_wait = POLL_INTERVAL - (time.time() - start_time)
TimeToWait(e) == POLL_INTERVAL - e

\* if time_to_wait > 0
SleepsFor(w) == w > 0

\* The end of a cycle: compute time_to_wait and call time.sleep only when it is positive.
Cadence ==
    /\ pc = "cadence"
    /\ UNCHANGED <<vars_gw, vars_relay, vars_codec, vars_sim, vars_block>>
    /\ \E e \in ElapsedChoices :
         /\ elapsed' = e
         /\ IF SleepsFor(TimeToWait(e))
            THEN pc' = "sleep" /\ sleep_arg' = TimeToWait(e)
            ELSE pc' = "cycle_start" /\ sleep_arg' = 0
    /\ UNCHANGED <<conn, open_conns, client_sock, connect_ret, parameter_config, hr, i,
                   records_to_insert, current_timestamp, pending, persisted, now, exc,
                   read_errors, cycles, faults>>

\* time.sleep(time_to_wait) returns.
Sleep ==
    /\ pc = "sleep"
    /\ UNCHANGED <<vars_gw, vars_relay, vars_codec, vars_sim, vars_block>>
    /\ pc' = "cycle_start"
    /\ sleep_arg' = 0
    /\ now' \in Advance
    /\ UNCHANGED <<conn, open_conns, client_sock, connect_ret, parameter_config, hr, i,
                   records_to_insert, current_timestamp, pending, persisted, elapsed,
                   exc, read_errors, cycles, faults>>

\* if client.is_socket_open(): client.close()
CloseClient(sock) == "closed"

\* A handler that leaves the storage connection as it is.
CloseConnSkipped(c) == c

\* if 'conn' in locals() and not conn.closed: conn.close()
CloseConn(c) == IF c = "open" THEN "closed" ELSE c

\* The except block up to the call of time.sleep(10).
Handler ==
    /\ pc = "handler"
    /\ UNCHANGED <<vars_gw, vars_relay, vars_codec, vars_sim, vars_block>>
    /\ client_sock' = CloseClient(client_sock)
    /\ conn' = CloseConn(conn)
    /\ open_conns' = IF conn = "open" /\ conn' = "closed" THEN open_conns - 1 ELSE open_conns
    /\ pending' = IF conn' = "closed" THEN <<>> ELSE pending
    /\ sleep_arg' = BACKOFF_SECONDS
    /\ pc' = "backoff"
    /\ UNCHANGED <<connect_ret, parameter_config, hr, i, records_to_insert,
                   current_timestamp, persisted, now, elapsed, exc, read_errors, cycles,
                   faults>>

\* time.sleep(10) returns and the outer loop starts over.
Backoff ==
    /\ pc = "backoff"
    /\ UNCHANGED <<vars_gw, vars_relay, vars_codec, vars_sim, vars_block>>
    /\ pc' = "connect_db"
    /\ sleep_arg' = 0
    /\ exc' = "none"
    /\ now' \in Advance
    /\ UNCHANGED <<conn, open_conns, client_sock, connect_ret, parameter_config, hr, i,
                   records_to_insert, current_timestamp, pending, persisted, elapsed,
                   read_errors, cycles, faults>>

NoTimestamp == [t |-> 0, tzinfo |-> "unset"]

InitIngest ==
    /\ pc = "connect_db"
    /\ conn = "unbound"
    /\ open_conns = 0
    /\ client_sock = "closed"
    /\ connect_ret = FALSE
    /\ parameter_config \in ParamConfigs
    /\ hr = <<>>
    /\ i = 0
    /\ records_to_insert = <<>>
    /\ current_timestamp = NoTimestamp
    /\ pending = <<>>
    /\ persisted = <<>>
    /\ now = 0
    /\ elapsed = 0
    /\ sleep_arg = 0
    /\ exc = "none"
    /\ read_errors = {}
    /\ cycles = 0
    /\ faults = 0

NextIngest ==
    \/ ConnectDb
    \/ ConnectModbus
    \/ StartCycle
    \/ ReadWellhead
    \/ WriteBatch
    \/ Commit
    \/ Cadence
    \/ Sleep
    \/ Handler
    \/ Backoff

\* The gateway before its main block runs.
GwIdle ==
    /\ gw_pc = "start"
    /\ db_rows = <<>>
    /\ mappings = <<>>
    /\ row = 0
    /\ temp_map = <<>>
    /\ register_map = <<>>
    /\ server_context = "None"
    /\ updater = "not_started"

\* No read has been answered yet.
NoRead == [base_address |-> -1, registers |-> <<>>, decoded |-> <<>>, appended |-> FALSE]

\* The relay thread and its simulator before updater.start().
RelayIdle ==
    /\ relay_pc = "not_started"
    /\ relay_exc = [type |-> "none", cause |-> "none"]
    /\ sim = "not_started"
    /\ script = <<>>
    /\ pipe = <<>>
    /\ msg = <<>>
    /\ msg_hr = <<>>
    /\ dp = 0
    /\ pk = 0
    /\ wpos = 0
    /\ written = {}
    /\ hist = <<>>
    /\ client_read = NoRead

\* The simulator script before it runs.
SimIdle ==
    /\ sim_pc = "idle"
    /\ sim_config = <<>>
    /\ sim_w = 0
    /\ sim_p = 0
    /\ all_data = <<>>
    /\ sim_point = <<>>
    /\ printed = <<>>
    /\ sim_cycles = 0
    /\ sim_lines = 0

\* No frame at the block-layout gateway.
BlockIdle ==
    /\ blk_pc = "idle"
    /\ wellhead_index = 0
    /\ wellhead_data = <<>>

\* No value in the codec.
CodecIdle ==
    /\ codec_pc = "idle"
    /\ codec_kind = "none"
    /\ codec_value = [j |-> "none"]
    /\ codec_regs = <<>>
    /\ codec_out = [kind |-> "missing"]

\* database_ingestion.main alone.
InitIngestAlone == InitIngest /\ GwIdle /\ RelayIdle /\ CodecIdle /\ SimIdle /\ BlockIdle

SpecIngest == InitIngestAlone /\ [][NextIngest]_vars

\* main is a sequential program: it takes its next step whenever it has one.
SpecIngestFair == SpecIngest /\ WF_vars(NextIngest)

\* ------------------------------------------------ src/modbus_gateway.py, main

GwWellheads == {"WH-001", "WH-002"}
GwCodes == {"THP", "SDV_ST"}

\* parameterType.data_type of a code: "float" and "bool" as the parameter
\* catalog spells them, "integer" and "boolean" as the relay's encoder does.
DataType(code) ==
    CASE code = "THP" -> "float"
      [] code = "CHK_POS" -> "integer"
      [] code = "ESD_ST" -> "boolean"
      [] OTHER -> "bool"

\* deviceParameterMapping.modbus_register values the store may hold.
RegisterChoices == {0, 1, STORE_SIZE - 1}

\* The rows the mapping query joins over, active or not.
CandidateRows ==
    [wellhead_id : GwWellheads, code : GwCodes, modbus_register : RegisterChoices,
     active : BOOLEAN]

RECURSIVE SeqsUpTo(_, _)
SeqsUpTo(S, n) ==
    IF n = 0 THEN {<<>>}
    ELSE LET shorter == SeqsUpTo(S, n - 1)
         IN  shorter \cup {Append(q, x) : q \in shorter, x \in S}

\* WHERE dpm.active = TRUE
IsActive(r) == r.active
ActiveRows(rows) == SelectSeq(rows, IsActive)

EmptyMap == <<>>

\* if wellhead_id not in temp_map: temp_map[wellhead_id] = {}
\* temp_map[wellhead_id][param_code] = {"register": register, "type": data_type}
MapPut(m, wellhead_id, param_code, info) ==
    LET inner == IF wellhead_id \in DOMAIN m THEN m[wellhead_id] ELSE EmptyMap
        inner2 == [c \in DOMAIN inner \cup {param_code} |->
                      IF c = param_code THEN info ELSE inner[c]]
    IN  [w \in DOMAIN m \cup {wellhead_id} |-> IF w = wellhead_id THEN inner2 ELSE m[w]]

\* The (wellhead_id, parameter_code) pairs of a map.
Entries(m) == UNION {{<<w, c>> : c \in DOMAIN m[w]} : w \in DOMAIN m}

\* psycopg2.connect in build_register_map; OperationalError ends the main block.
GwConnect ==
    /\ gw_pc = "start"
    /\ UNCHANGED <<vars_ingest, vars_relay, vars_codec, vars_sim, vars_block>>
    /\ \/ gw_pc' = "query"
       \/ gw_pc' = "failed"
    /\ UNCHANGED <<db_rows, mappings, row, temp_map, register_map, server_context, updater>>

\* cursor.execute(query); mappings = cursor.fetchall(); temp_map = {}
\* A query the store rejects raises and ends the build.
GwFetch ==
    /\ gw_pc = "query"
    /\ UNCHANGED <<vars_ingest, vars_relay, vars_codec, vars_sim, vars_block>>
    /\ \/ /\ mappings' = ActiveRows(db_rows)
          /\ temp_map' = EmptyMap
          /\ row' = 0
          /\ gw_pc' = "build"
       \/ /\ gw_pc' = "failed"
          /\ UNCHANGED <<mappings, temp_map, row>>
    /\ UNCHANGED <<db_rows, register_map, server_context, updater>>

\* A build that inserts each row into the global map.
BuiltInPlace(published, building) == building

\* The loop fills the local temp_map: the global register_map keeps its value
\* until the assignment after the loop.
PublishedWhileBuilding(published, building) == published

\* One pass of "for row in mappings".
GwInsertRow ==
    /\ gw_pc = "build"
    /\ UNCHANGED <<vars_ingest, vars_relay, vars_codec, vars_sim, vars_block>>
    /\ row < Len(mappings)
    /\ LET r == mappings[row + 1]
       IN  temp_map' = MapPut(temp_map, r.wellhead_id, r.code,
                              [register |-> r.modbus_register, type |-> DataType(r.code)])
    /\ row' = row + 1
    /\ register_map' = PublishedWhileBuilding(register_map, temp_map')
    /\ UNCHANGED <<gw_pc, db_rows, mappings, server_context, updater>>

\* register_map = temp_map; cursor.close(); conn.close()
GwPublish ==
    /\ gw_pc = "build"
    /\ UNCHANGED <<vars_ingest, vars_relay, vars_codec, vars_sim, vars_block>>
    /\ row = Len(mappings)
    /\ register_map' = temp_map
    /\ gw_pc' = "built"
    /\ UNCHANGED <<db_rows, mappings, row, temp_map, server_context, updater>>

\* updater = threading.Thread(target=data_updater_thread, daemon=True); updater.start()
GwStartUpdater ==
    /\ gw_pc = "built"
    /\ UNCHANGED <<vars_ingest, vars_relay, vars_codec, vars_sim, vars_block>>
    /\ updater' = "running"
    /\ gw_pc' = "run_server"
    /\ UNCHANGED <<db_rows, mappings, row, temp_map, register_map, server_context>>

\* run_modbus_server: allocate the store, set server_context, serve.
GwRunServer ==
    /\ gw_pc = "run_server"
    /\ UNCHANGED <<vars_ingest, vars_relay, vars_codec, vars_sim, vars_block>>
    /\ server_context' = "created"
    /\ gw_pc' = "serving"
    /\ UNCHANGED <<db_rows, mappings, row, temp_map, register_map, updater>>

InitGateway ==
    /\ gw_pc = "start"
    /\ db_rows \in SeqsUpTo(CandidateRows, MaxRows)
    /\ mappings = <<>>
    /\ row = 0
    /\ temp_map = EmptyMap
    /\ register_map = EmptyMap
    /\ server_context = "None"
    /\ updater = "not_started"

\* The ingestion service before it runs, with one parameter file.
IngestIdle ==
    /\ InitIngest
    /\ Decodable

NextGateway ==
    \/ GwConnect
    \/ GwFetch
    \/ GwInsertRow
    \/ GwPublish
    \/ GwStartUpdater
    \/ GwRunServer

\* The start-up of the register-map gateway.
InitGatewayAlone == InitGateway /\ IngestIdle /\ RelayIdle /\ CodecIdle /\ SimIdle /\ BlockIdle

SpecGateway == InitGatewayAlone /\ [][NextGateway]_vars

\* ------------------------------- the codec: builder.add_32bit_*, decode_32bit_*

\* Values a JSON number or string takes in a frame: an integer within 32 bits,
\* an integer beyond them, a number with a fraction (its integer part and the
\* bit pattern of the nearest single-precision number, high word first), a
\* string that is not a number.
JInt(n) == [j |-> "int", v |-> n]
JFloat(trunc, f32) == [j |-> "float", trunc |-> trunc, f32 |-> f32]
JBigInt == [j |-> "bigint"]
JStr == [j |-> "str"]

MinInt32 == -2147483647 - 1
MaxInt32 == 2147483647

\* The single-precision pattern of a small integer, high word first.
IntAsFloat32(n) ==
    CASE n = 0 -> <<0, 0>>
      [] n = 1 -> <<16256, 0>>
      [] n = 2 -> <<16384, 0>>
      [] n = -1 -> <<49024, 0>>

\* float(value) and int(value): ValueError for a string that is no number.
ConvertRaises(value) == IF value.j = "str" THEN "ValueError" ELSE "none"

\* int(value): an integer is kept, a fraction is cut off towards zero.
ToInt(value) == IF value.j = "float" THEN value.trunc ELSE value.v

\* float(value) as the single-precision pattern add_32bit_float packs.
ToFloat32(value) ==
    IF value.j = "float" THEN value.f32
    ELSE IF value.j = "bigint" THEN <<20224, 0>>
    ELSE IntAsFloat32(value.v)

\* A builder with wordorder big: the high word is the first register.
EncodeHighWordFirst(n) ==
    LET lo == n % 65536
    IN  <<((n - lo) \div 65536) % 65536, lo>>

\* add_32bit_int on a builder with byteorder big and wordorder little: the
\* two's complement of n in 32 bits, its low word as the first register.
Encode32BitInt(n) ==
    LET lo == n % 65536
    IN  <<lo, ((n - lo) \div 65536) % 65536>>

\* add_32bit_float on the same builder: low word first.
Encode32BitFloat(bits) == <<bits[2], bits[1]>>

\* The if / elif over param_type and builder.to_registers(): what is raised
\* and the registers of the payload. No branch is taken for another type and
\* the builder stays empty.
Encode(param_type, value) ==
    IF param_type = "float"
    THEN IF ConvertRaises(value) # "none"
         THEN [raises |-> ConvertRaises(value), payload |-> <<>>]
         ELSE [raises |-> "none", payload |-> Encode32BitFloat(ToFloat32(value))]
    ELSE IF param_type \in {"integer", "boolean"}
    THEN IF ConvertRaises(value) # "none"
         THEN [raises |-> ConvertRaises(value), payload |-> <<>>]
         ELSE IF value.j = "bigint"
         THEN [raises |-> "struct.error", payload |-> <<>>]
         ELSE [raises |-> "none", payload |-> Encode32BitInt(ToInt(value))]
    ELSE [raises |-> "none", payload |-> <<>>]

\* Integers around the places where a word or the sign changes.
Int32Samples ==
    {MinInt32 + d : d \in 0..CodecSpread}
    \cup {MaxInt32 - d : d \in 0..CodecSpread}
    \cup {a + d : a \in {-65536, -32768, 0, 32768, 65536}, d \in (0 - CodecSpread)..CodecSpread}

\* 0.0, 1.0, -1.5, 2.5 and 1234.56 as single-precision patterns.
FloatSamples ==
    {JFloat(0, <<0, 0>>), JFloat(1, <<16256, 0>>), JFloat(-1, <<49088, 0>>),
     JFloat(2, <<16416, 0>>), JFloat(1234, <<17562, 20972>>)}

CodecInputs ==
    {<<"integer", JInt(n)>> : n \in Int32Samples}
    \cup {<<"boolean", JInt(n)>> : n \in Int32Samples}
    \cup {<<"integer", f>> : f \in FloatSamples}
    \cup {<<"float", f>> : f \in FloatSamples}

\* A value of a mapped type arrives at the encoder.
InitCodec ==
    /\ codec_pc = "input"
    /\ \E in \in CodecInputs :
          /\ codec_kind = in[1]
          /\ codec_value = in[2]
    /\ codec_regs = <<>>
    /\ codec_out = [kind |-> "missing"]

\* The gateway's builder turns the value into registers.
CodecEncode ==
    /\ codec_pc = "input"
    /\ codec_regs' = Encode(codec_kind, codec_value).payload
    /\ codec_pc' = "encoded"
    /\ UNCHANGED <<codec_kind, codec_value, codec_out>>
    /\ UNCHANGED <<vars_ingest, vars_gw, vars_relay, vars_sim, vars_block>>

\* The ingestion decoder reads the registers back under the same type.
CodecDecode ==
    /\ codec_pc = "encoded"
    /\ codec_out' = DecodedData(codec_regs, <<[name |-> "p", type |-> codec_kind]>>)[1]
    /\ codec_pc' = "decoded"
    /\ UNCHANGED <<codec_kind, codec_value, codec_regs>>
    /\ UNCHANGED <<vars_ingest, vars_gw, vars_relay, vars_sim, vars_block>>

NextCodec ==
    \/ CodecEncode
    \/ CodecDecode

InitCodecAlone == InitCodec /\ IngestIdle /\ GwIdle /\ RelayIdle /\ SimIdle /\ BlockIdle

SpecCodec == InitCodecAlone /\ [][NextCodec]_vars


\* -------------------------- src/modbus_gateway.py, data_updater_thread

\* A frame of a line: the keys it has, its wellhead and its parameters in the
\* order of the dictionary.
Frame(wellhead_id, parameters) ==
    [has_id |-> TRUE, wellhead_id |-> wellhead_id, has_params |-> TRUE,
     parameters |-> parameters]
Item(code, value) == [code |-> code, value |-> value]

\* Lines the simulator may print.
LineGood ==
    [t |-> "list",
     frames |-> << Frame("WH-001", << Item("THP", JFloat(1234, <<17562, 20972>>)),
                                      Item("CHK_POS", JInt(-2)),
                                      Item("ESD_ST", JInt(1)) >>) >>]
LineUnknown ==
    [t |-> "list",
     frames |-> << Frame("WH-009", << Item("THP", JFloat(1, <<16256, 0>>)) >>),
                   Frame("WH-001", << Item("XYZ", JInt(5)),
                                      Item("CHK_POS", JInt(65538)),
                                      Item("THP", JFloat(2, <<16416, 0>>)) >>) >>]
LineCatalogBool ==
    [t |-> "list",
     frames |-> << Frame("WH-002", << Item("SDV_ST", JInt(1)),
                                      Item("THP", JInt(1)) >>) >>]
LineNotJson == [t |-> "notjson", frames |-> <<>>]
LineScalar == [t |-> "scalar", frames |-> <<>>]
LineObject == [t |-> "object", frames |-> <<>>]
LineMissingId ==
    [t |-> "list",
     frames |-> << Frame("WH-001", << Item("CHK_POS", JInt(7)) >>),
                   [has_id |-> FALSE, wellhead_id |-> "", has_params |-> TRUE,
                    parameters |-> << Item("THP", JInt(0)) >>] >>]
LineMissingParameters ==
    [t |-> "list",
     frames |-> << [has_id |-> TRUE, wellhead_id |-> "WH-001", has_params |-> FALSE,
                    parameters |-> <<>>] >>]
LineBadValue ==
    [t |-> "list", frames |-> << Frame("WH-001", << Item("THP", JStr) >>) >>]
LineOverflow ==
    [t |-> "list", frames |-> << Frame("WH-001", << Item("CHK_POS", JBigInt) >>) >>]

LineChoices ==
    {LineGood, LineUnknown, LineCatalogBool, LineNotJson, LineScalar, LineObject,
     LineMissingId, LineMissingParameters, LineBadValue, LineOverflow}

\* The mapping rows of a metadata store that maps two wellheads.
RelayRows ==
    << [wellhead_id |-> "WH-001", code |-> "THP", modbus_register |-> 0, active |-> TRUE],
       [wellhead_id |-> "WH-001", code |-> "CHK_POS", modbus_register |-> 2, active |-> TRUE],
       [wellhead_id |-> "WH-001", code |-> "ESD_ST", modbus_register |-> 4, active |-> TRUE],
       [wellhead_id |-> "WH-002", code |-> "THP", modbus_register |-> 50, active |-> TRUE],
       [wellhead_id |-> "WH-002", code |-> "SDV_ST", modbus_register |-> 52, active |-> TRUE] >>

\* process = subprocess.Popen(['python', SIMULATOR_SCRIPT], stdout=PIPE, text=True)
RelaySpawn ==
    /\ updater = "running"
    /\ UNCHANGED msg_hr
    /\ relay_pc = "not_started"
    /\ sim' = "running"
    /\ relay_pc' = "readline"
    /\ UNCHANGED <<relay_exc, script, pipe, msg, dp, pk, wpos, written, hist, client_read>>
    /\ UNCHANGED <<vars_ingest, vars_gw, vars_codec, vars_sim, vars_block>>

\* The simulator prints its next line.
SimPrint ==
    /\ sim = "running"
    /\ UNCHANGED msg_hr
    /\ script # <<>>
    /\ pipe' = Append(pipe, Head(script))
    /\ script' = Tail(script)
    /\ UNCHANGED <<relay_pc, relay_exc, sim, msg, dp, pk, wpos, written, hist, client_read>>
    /\ UNCHANGED <<vars_ingest, vars_gw, vars_codec, vars_sim, vars_block>>

\* The simulator process ends.
SimExit ==
    /\ sim = "running"
    /\ UNCHANGED msg_hr
    /\ sim' = "exited"
    /\ UNCHANGED <<relay_pc, relay_exc, script, pipe, msg, dp, pk, wpos, written, hist,
                   client_read>>
    /\ UNCHANGED <<vars_ingest, vars_gw, vars_codec, vars_sim, vars_block>>

\* except (json.JSONDecodeError, KeyError)
RelayCatches(kind) == kind \in {"JSONDecodeError", "KeyError"}

\* Where the thread goes when the try body raises: on to process.poll() when
\* the exception is caught, out of the thread function otherwise.
RelayRaisedPc(kind) == IF RelayCatches(kind) THEN "poll" ELSE "dead"

\* What json.loads and the start of "for data_point in wellhead_data_list"
\* raise for a line: a scalar cannot be iterated, the keys of an object are
\* strings and cannot be indexed by 'wellhead_id'.
LineRaises(line) ==
    CASE line.t = "notjson" -> "JSONDecodeError"
      [] line.t \in {"scalar", "object"} -> "TypeError"
      [] OTHER -> "none"

\* output = process.stdout.readline(); json.loads(output.strip()); readline
\* blocks while the pipe is empty and the simulator runs, and returns '' at
\* end of file.
RelayReadline ==
    /\ relay_pc = "readline"
    /\ \/ /\ pipe # <<>>
          /\ pipe' = Tail(pipe)
          /\ LET line == Head(pipe)
                 kind == LineRaises(line)
             IN  IF kind # "none"
                 THEN /\ relay_pc' = RelayRaisedPc(kind)
                      /\ relay_exc' = IF RelayCatches(kind) THEN relay_exc
                                      ELSE [type |-> kind, cause |-> "input"]
                      /\ UNCHANGED <<msg, dp>>
                 ELSE /\ msg' = line.frames
                      /\ dp' = 1
                      /\ relay_pc' = "frame"
                      /\ UNCHANGED relay_exc
          /\ msg_hr' = hr
       \/ /\ pipe = <<>>
          /\ sim = "exited"
          /\ relay_pc' = "poll"
          /\ UNCHANGED <<pipe, msg, msg_hr, dp, relay_exc>>
    /\ UNCHANGED <<sim, script, pk, wpos, written, hist, client_read>>
    /\ UNCHANGED <<vars_ingest, vars_gw, vars_codec, vars_sim, vars_block>>

\* A loop that leaves the message at an unknown wellhead.
BreakAtUnknownWellhead(idx) == Len(msg) + 1

\* if wellhead_id not in register_map: continue
AfterUnknownWellhead(idx) == idx + 1

\* One pass of "for data_point in wellhead_data_list" up to the inner for.
RelayFrame ==
    /\ relay_pc = "frame"
    /\ UNCHANGED msg_hr
    /\ IF dp > Len(msg)
       THEN /\ relay_pc' = "poll"
            /\ UNCHANGED <<dp, pk>>
       ELSE LET data_point == msg[dp]
            IN  IF ~data_point.has_id
                THEN /\ relay_pc' = RelayRaisedPc("KeyError")
                     /\ UNCHANGED <<dp, pk>>
                ELSE IF data_point.wellhead_id \notin DOMAIN register_map
                THEN /\ dp' = AfterUnknownWellhead(dp)
                     /\ UNCHANGED <<relay_pc, pk>>
                ELSE IF ~data_point.has_params
                THEN /\ relay_pc' = RelayRaisedPc("KeyError")
                     /\ UNCHANGED <<dp, pk>>
                ELSE /\ relay_pc' = "param"
                     /\ pk' = 1
                     /\ UNCHANGED dp
    /\ UNCHANGED <<relay_exc, sim, script, pipe, msg, wpos, written, hist, client_read>>
    /\ UNCHANGED <<vars_ingest, vars_gw, vars_codec, vars_sim, vars_block>>

\* A store that takes the words of a payload one call at a time.
OneWordPerStore(payload) == 1

\* setValues(3, register_addr, payload): the words of the payload are stored
\* by one assignment to the block's list.
WordsPerStore(payload) == Len(payload)

HistAt(a) == IF a \in DOMAIN hist THEN hist[a] ELSE {}

\* One pass of "for param_code, value in data_point['parameters'].items()".
RelayParam ==
    /\ relay_pc = "param"
    /\ UNCHANGED msg_hr
    /\ LET data_point == msg[dp]
       IN  IF pk > Len(data_point.parameters)
           THEN /\ dp' = dp + 1
                /\ pk' = 0
                /\ relay_pc' = "frame"
                /\ UNCHANGED <<relay_exc, wpos, written, hist, hr>>
           ELSE LET param_code == data_point.parameters[pk].code
                    value == data_point.parameters[pk].value
                IN  IF param_code \notin DOMAIN register_map[data_point.wellhead_id]
                    THEN /\ pk' = pk + 1
                         /\ UNCHANGED <<dp, relay_pc, relay_exc, wpos, written, hist, hr>>
                    ELSE LET mapping_info == register_map[data_point.wellhead_id][param_code]
                             register_addr == mapping_info.register
                             built == Encode(mapping_info.type, value)
                             payload == built.payload
                             upto == IF wpos + WordsPerStore(payload) >= Len(payload)
                                     THEN Len(payload)
                                     ELSE wpos + WordsPerStore(payload)
                             stored == {register_addr + k - 1 : k \in (wpos + 1)..upto}
                         IN  IF built.raises # "none"
                             THEN /\ relay_pc' = RelayRaisedPc(built.raises)
                                  /\ relay_exc' = [type |-> built.raises, cause |-> "input"]
                                  /\ UNCHANGED <<dp, pk, wpos, written, hist, hr>>
                             ELSE IF server_context = "None"
                             THEN /\ relay_pc' = RelayRaisedPc("TypeError")
                                  /\ relay_exc' = [type |-> "TypeError",
                                                   cause |-> "server_context"]
                                  /\ UNCHANGED <<dp, pk, wpos, written, hist, hr>>
                             ELSE /\ hr' = [a \in DOMAIN hr \cup stored |->
                                              IF a \in stored
                                              THEN payload[a - register_addr + 1]
                                              ELSE hr[a]]
                                  /\ written' = written \cup stored
                                  /\ hist' = IF wpos = 0 /\ payload # <<>>
                                             THEN [a \in DOMAIN hist \cup {register_addr} |->
                                                     IF a = register_addr
                                                     THEN HistAt(a) \cup {payload}
                                                     ELSE hist[a]]
                                             ELSE hist
                                  /\ IF upto = Len(payload)
                                     THEN /\ wpos' = 0
                                          /\ pk' = pk + 1
                                     ELSE /\ wpos' = upto
                                          /\ pk' = pk
                                  /\ UNCHANGED <<dp, relay_pc, relay_exc>>
    /\ UNCHANGED <<sim, script, pipe, msg, client_read>>
    /\ UNCHANGED <<pc, conn, open_conns, client_sock, connect_ret, parameter_config, i,
                   records_to_insert, current_timestamp, pending, persisted, now, elapsed,
                   sleep_arg, exc, read_errors, cycles, faults>>
    /\ UNCHANGED <<vars_gw, vars_codec, vars_sim, vars_block>>

\* if process.poll() is not None: break; time.sleep(0.1)
RelayPoll ==
    /\ relay_pc = "poll"
    /\ UNCHANGED msg_hr
    /\ relay_pc' = IF sim = "exited" THEN "ended" ELSE "readline"
    /\ UNCHANGED <<relay_exc, sim, script, pipe, msg, dp, pk, wpos, written, hist,
                   client_read>>
    /\ UNCHANGED <<vars_ingest, vars_gw, vars_codec, vars_sim, vars_block>>

\* The server answers one read_holding_registers of the ingestion loop: the
\* block of one wellhead, decoded and turned into a record of the batch.
ClientRead ==
    /\ gw_pc = "serving"
    /\ UNCHANGED msg_hr
    /\ \E idx \in 0..(NUMBER_OF_WELLHEADS - 1) :
          LET base_address == idx * REGISTERS_PER_WELLHEAD
              registers == ReadRegisters(base_address, Len(parameter_config) * 2)
              decoded == DecodedData(registers, parameter_config)
          IN  client_read' = [base_address |-> base_address, registers |-> registers,
                              decoded |-> decoded,
                              appended |-> ~RaisesKeyError(decoded)]
    /\ UNCHANGED <<relay_pc, relay_exc, sim, script, pipe, msg, dp, pk, wpos, written, hist>>
    /\ UNCHANGED <<vars_ingest, vars_gw, vars_codec, vars_sim, vars_block>>

\* The gateway with a mapped metadata store and a simulator that has up to
\* MaxLines lines to print.
InitRelay ==
    /\ gw_pc = "start"
    /\ db_rows = RelayRows
    /\ mappings = <<>>
    /\ row = 0
    /\ temp_map = EmptyMap
    /\ register_map = EmptyMap
    /\ server_context = "None"
    /\ updater = "not_started"
    /\ relay_pc = "not_started"
    /\ relay_exc = [type |-> "none", cause |-> "none"]
    /\ sim = "not_started"
    /\ script \in SeqsUpTo(LineChoices, MaxLines)
    /\ pipe = <<>>
    /\ msg = <<>>
    /\ msg_hr = <<>>
    /\ dp = 0
    /\ pk = 0
    /\ wpos = 0
    /\ written = {}
    /\ hist = <<>>
    /\ client_read = NoRead
    /\ IngestIdle
    /\ CodecIdle
    /\ SimIdle
    /\ BlockIdle

NextRelay ==
    \/ GwConnect
    \/ GwFetch
    \/ GwInsertRow
    \/ GwPublish
    \/ GwStartUpdater
    \/ GwRunServer
    \/ RelaySpawn
    \/ SimPrint
    \/ SimExit
    \/ RelayReadline
    \/ RelayFrame
    \/ RelayParam
    \/ RelayPoll
    \/ ClientRead

\* The gateway process: main thread, relay thread, simulator and one client.
SpecRelay == InitRelay /\ [][NextRelay]_vars


\* ------------------------------------- wellhead_simulator.py, run_simulation

\* Rows of parameterType as get_simulation_metadata reads them: code,
\* normal_min, normal_max (has_range is FALSE when both are NULL) and
\* data_type. The catalog gives the valve states and commands no range and
\* the type "bool".
MetaTHP == [code |-> "THP", has_range |-> TRUE, min |-> 0, max |-> 5000, type |-> "float"]
MetaFLT == [code |-> "FLT", has_range |-> TRUE, min |-> -40, max |-> 200, type |-> "float"]
MetaCHK == [code |-> "CHK_POS", has_range |-> TRUE, min |-> 0, max |-> 100, type |-> "integer"]
MetaESD == [code |-> "ESD_ST", has_range |-> TRUE, min |-> 0, max |-> 1, type |-> "boolean"]
MetaSDV == [code |-> "SDV_ST", has_range |-> FALSE, min |-> 0, max |-> 0, type |-> "bool"]

Metas == {MetaTHP, MetaFLT, MetaCHK, MetaESD, MetaSDV}

\* sim_config for one or two wellheads with the same parameters.
SimConfigs ==
    LET lists == SeqsUpTo(Metas, MaxSimParams) \ {<<>>}
    IN  {<<[wellhead_id |-> "WH-001", params |-> ps]>> : ps \in lists}
        \cup {<<[wellhead_id |-> "WH-001", params |-> ps],
                [wellhead_id |-> "WH-002", params |-> ps]>> : ps \in lists}

\* Values are kept in thousandths. random.uniform(a, b) raises TypeError when
\* a bound is None; otherwise it returns a number between the bounds: the
\* lower bound and a point 1.234 above it stand for the nine cases in ten, the
\* stretched upper bound max * 1.2 for the tenth.
UniformRaises(param) == ~param.has_range
UniformSamples(param) ==
    {param.min * 1000, param.min * 1000 + 1234, param.max * 1200}

\* round(value, 2)
Round2(v) == ((v + 5) \div 10) * 10

\* int(value): the fraction is cut off towards zero.
IntOf(v) == IF v >= 0 THEN (v \div 1000) * 1000 ELSE 0 - (((0 - v) \div 1000) * 1000)

\* The if / elif / else over param["type"]: the values the parameter may get.
Generated(param) ==
    IF param.type = "float" THEN {Round2(v) : v \in UniformSamples(param)}
    ELSE IF param.type = "boolean" THEN {0, 1000}
    ELSE {IntOf(v) : v \in UniformSamples(param)}

\* while True: all_data = []
RunCycle ==
    /\ sim_pc = "cycle"
    /\ sim_cycles < MaxSimCycles
    /\ sim_cycles' = sim_cycles + 1
    /\ all_data' = <<>>
    /\ sim_w' = 1
    /\ sim_pc' = "wellhead"
    /\ UNCHANGED <<sim_config, sim_p, sim_point, printed, sim_lines>>
    /\ UNCHANGED <<vars_ingest, vars_gw, vars_relay, vars_codec, vars_block>>

\* for wellhead_id, params in config.items(): data_point = {...}
RunWellhead ==
    /\ sim_pc = "wellhead"
    /\ IF sim_w > Len(sim_config)
       THEN /\ sim_pc' = "print"
            /\ UNCHANGED <<sim_p, sim_point>>
       ELSE /\ sim_point' = <<>>
            /\ sim_p' = 1
            /\ sim_pc' = "param"
    /\ UNCHANGED <<sim_config, sim_w, all_data, printed, sim_cycles, sim_lines>>
    /\ UNCHANGED <<vars_ingest, vars_gw, vars_relay, vars_codec, vars_block>>

\* One pass of "for param in params", and all_data.append(data_point) after
\* the last. run_simulation and its caller catch no TypeError: it ends the
\* script.
RunParam ==
    /\ sim_pc = "param"
    /\ LET params == sim_config[sim_w].params
       IN  IF sim_p > Len(params)
           THEN /\ all_data' = Append(all_data, [wellhead_id |-> sim_config[sim_w].wellhead_id,
                                                 parameters |-> sim_point])
                /\ sim_w' = sim_w + 1
                /\ sim_pc' = "wellhead"
                /\ UNCHANGED <<sim_p, sim_point>>
           ELSE IF UniformRaises(params[sim_p])
           THEN /\ sim_pc' = "crashed"
                /\ UNCHANGED <<all_data, sim_w, sim_p, sim_point>>
           ELSE /\ \E value \in Generated(params[sim_p]) :
                      sim_point' = Append(sim_point, [code |-> params[sim_p].code,
                                                      value |-> value])
                /\ sim_p' = sim_p + 1
                /\ UNCHANGED <<all_data, sim_w, sim_pc>>
    /\ UNCHANGED <<sim_config, printed, sim_cycles, sim_lines>>
    /\ UNCHANGED <<vars_ingest, vars_gw, vars_relay, vars_codec, vars_block>>

\* print(json.dumps(all_data))
RunPrint ==
    /\ sim_pc = "print"
    /\ printed' = all_data
    /\ sim_lines' = sim_lines + 1
    /\ sim_pc' = "sleep"
    /\ UNCHANGED <<sim_config, sim_w, sim_p, all_data, sim_point, sim_cycles>>
    /\ UNCHANGED <<vars_ingest, vars_gw, vars_relay, vars_codec, vars_block>>

\* time.sleep(interval_seconds): the line has gone down the pipe.
RunSleep ==
    /\ sim_pc = "sleep"
    /\ printed' = <<>>
    /\ sim_pc' = "cycle"
    /\ UNCHANGED <<sim_config, sim_w, sim_p, all_data, sim_point, sim_cycles, sim_lines>>
    /\ UNCHANGED <<vars_ingest, vars_gw, vars_relay, vars_codec, vars_block>>

\* run_simulation is entered with the metadata of a seeded store.
InitSim ==
    /\ sim_pc = "cycle"
    /\ sim_config \in SimConfigs
    /\ sim_w = 0
    /\ sim_p = 0
    /\ all_data = <<>>
    /\ sim_point = <<>>
    /\ printed = <<>>
    /\ sim_cycles = 0
    /\ sim_lines = 0
    /\ IngestIdle
    /\ GwIdle
    /\ RelayIdle
    /\ CodecIdle
    /\ BlockIdle

NextSim ==
    \/ RunCycle
    \/ RunWellhead
    \/ RunParam
    \/ RunPrint
    \/ RunSleep

SpecSim == InitSim /\ [][NextSim]_vars


\* --------------- modbus_gateway.py (block layout) beside database_ingestion.py

\* The types a parameters.json may give a parameter.
BlockTypes == {"float", "integer", "boolean", "bool"}

\* parameters.json files of one to MaxBlockParams parameters, read by the
\* gateway and by the ingestion service alike.
RECURSIVE TypeLists(_)
TypeLists(n) ==
    IF n = 0 THEN {<<>>}
    ELSE TypeLists(n - 1)
         \cup {Append(q, t) : q \in {l \in TypeLists(n - 1) : Len(l) = n - 1}, t \in BlockTypes}
BlockConfigs ==
    {[k \in 1..Len(l) |-> [name |-> <<"P", k>>, type |-> l[k]]] :
        l \in TypeLists(MaxBlockParams) \ {<<>>}}

\* wellhead_data['parameters'].get(param_name) when the frame has no such key.
JNone == [j |-> "none"]

\* The value a frame carries at position k: a number told apart by k.
ValueAt(k, type) == IF type = "float" THEN JFloat(k, <<16256 + k, k>>) ELSE JInt(k)

\* Frames: every parameter of the configuration is present or missing.
BlockFrames(config) ==
    {[k \in 1..Len(config) |-> IF k \in present THEN ValueAt(k, config[k].type) ELSE JNone] :
        present \in SUBSET (1..Len(config))}

\* The for loop over param_names on ONE builder: a missing value is passed
\* over ("continue"), a type without a branch adds nothing, every other value
\* adds its two words behind those already in the builder.
RECURSIVE BuilderWords(_, _, _)
BuilderWords(config, data, k) ==
    IF k > Len(config) THEN <<>>
    ELSE IF data[k].j = "none" THEN BuilderWords(config, data, k + 1)
    ELSE Encode(config[k].type, data[k]).payload \o BuilderWords(config, data, k + 1)

\* wellhead_index * REGISTERS_PER_WELLHEAD
BaseAddress(idx) == idx * REGISTERS_PER_WELLHEAD

\* payload = builder.to_registers(); server_context.setValues(3, base_address,
\* payload). The call is made on the server context, not on the slave context
\* it holds: either the words are stored from base_address on, or the call
\* raises AttributeError, which the except clause does not catch.
BlockStore ==
    /\ blk_pc = "frame"
    /\ LET payload == BuilderWords(parameter_config, wellhead_data, 1)
           base_address == BaseAddress(wellhead_index)
           stored == {base_address + k - 1 : k \in 1..Len(payload)}
       IN  \/ /\ hr' = [a \in DOMAIN hr \cup stored |->
                          IF a \in stored THEN payload[a - base_address + 1] ELSE hr[a]]
              /\ blk_pc' = "stored"
           \/ /\ blk_pc' = "dead"
              /\ UNCHANGED hr
    /\ UNCHANGED <<wellhead_index, wellhead_data>>
    /\ UNCHANGED <<pc, conn, open_conns, client_sock, connect_ret, parameter_config, i,
                   records_to_insert, current_timestamp, pending, persisted, now, elapsed,
                   sleep_arg, exc, read_errors, cycles, faults>>
    /\ UNCHANGED <<vars_gw, vars_relay, vars_codec, vars_sim>>

\* The ingestion loop reads the block of the wellhead and decodes it in the
\* order of parameters.json.
BlockRead ==
    /\ blk_pc = "stored"
    /\ LET base_address == wellhead_index * REGISTERS_PER_WELLHEAD
           registers == ReadRegisters(base_address, Len(parameter_config) * 2)
           decoded == DecodedData(registers, parameter_config)
       IN  client_read' = [base_address |-> base_address, registers |-> registers,
                           decoded |-> decoded, appended |-> ~RaisesKeyError(decoded)]
    /\ blk_pc' = "read"
    /\ UNCHANGED <<wellhead_index, wellhead_data>>
    /\ UNCHANGED <<relay_pc, relay_exc, sim, script, pipe, msg, msg_hr, dp, pk, wpos, written,
                   hist>>
    /\ UNCHANGED <<vars_ingest, vars_gw, vars_codec, vars_sim>>

\* A frame of one wellhead has been parsed; the store holds zeros.
InitBlock ==
    /\ blk_pc = "frame"
    /\ parameter_config \in BlockConfigs
    /\ wellhead_index \in 0..(NUMBER_OF_WELLHEADS - 1)
    /\ wellhead_data \in BlockFrames(parameter_config)
    /\ pc = "connect_db"
    /\ conn = "unbound"
    /\ open_conns = 0
    /\ client_sock = "closed"
    /\ connect_ret = FALSE
    /\ hr = <<>>
    /\ i = 0
    /\ records_to_insert = <<>>
    /\ current_timestamp = NoTimestamp
    /\ pending = <<>>
    /\ persisted = <<>>
    /\ now = 0
    /\ elapsed = 0
    /\ sleep_arg = 0
    /\ exc = "none"
    /\ read_errors = {}
    /\ cycles = 0
    /\ faults = 0
    /\ GwIdle
    /\ RelayIdle
    /\ CodecIdle
    /\ SimIdle

NextBlock ==
    \/ BlockStore
    \/ BlockRead

SpecBlock == InitBlock /\ [][NextBlock]_vars


\* ------------------------------------------------------------------ claims

\* C1: every exception raised in the connect or poll-cycle body is handled by
\* the except block; when main waits in the backoff, and when it starts the
\* next connect, the Modbus socket and the storage connection are closed (no
\* storage connection is left open at the server), the backoff is 10 s, and
\* the step after the backoff is a fresh storage connect, never a poll step.
C1_TeardownBeforeReconnect ==
    /\ [](pc \in {"backoff", "connect_db"} =>
            /\ client_sock = "closed"
            /\ conn # "open"
            /\ open_conns = 0)
    /\ [](pc = "backoff" => sleep_arg = BACKOFF_SECONDS)
    /\ [][exc' # exc /\ exc' # "none" => pc' = "handler"]_vars
    /\ [][pc = "handler" => pc' = "backoff"]_vars
    /\ [][pc = "backoff" => pc' = "connect_db"]_vars

\* C1 witness: a batch write failed on open connections and main now waits in
\* the backoff.
C1_Witness ==
    /\ pc = "backoff"
    /\ exc = "DatabaseError"
    /\ conn = "closed"
    /\ client_sock = "closed"

\* C2 (as claimed): main is at a register read, a batch write or a commit only
\* when the storage connection is open and the transport connect of this
\* iteration reported success.
C2_PollOnlyAfterBothOpened ==
    pc \in {"read", "write", "commit"} => conn = "open" /\ connect_ret = TRUE

\* C3: main never leaves its outer loop; every entry into the except block is
\* followed by a new connect attempt; when the parameter file holds supported
\* types only, some batch is committed, and after the last fault was handled
\* main reaches the end of a cycle whose batch was committed (as long as a
\* cycle is left to run).
C3_NoTerminalState ==
    /\ [](pc # "exited")
    /\ (pc = "handler") ~> (pc = "connect_db")
    /\ Decodable => <>(persisted # <<>>)
    /\ (pc = "handler" /\ faults = MaxFaults /\ cycles < MaxCycles /\ Decodable)
         ~> (pc = "cadence" /\ records_to_insert # <<>>)

\* C3 witness: all faults the environment had were injected, and a batch was
\* committed after a reconnect.
C3_Witness ==
    /\ faults = MaxFaults
    /\ exc = "none"
    /\ pc = "cadence"
    /\ persisted # <<>>
    /\ cycles > 1

\* Wellhead indexes of the records of a batch, in order.
BatchIndexes(batch) == [k \in 1..Len(batch) |-> batch[k].wellhead_id[2] - 1]

\* The indexes below n whose read did not give an error result, in order.
RECURSIVE GoodIndexes(_)
GoodIndexes(n) ==
    IF n = 0 THEN <<>>
    ELSE IF (n - 1) \in read_errors THEN GoodIndexes(n - 1)
         ELSE Append(GoodIndexes(n - 1), n - 1)

\* C4: an error result for one wellhead's read skips that wellhead only: the
\* loop goes on with the connections as they were, the batch holds a record of
\* every wellhead read so far without an error result, every wellhead is read
\* in every cycle, and the batch is what is committed.
C4_ReadErrorSkipsOneEntry ==
    /\ pc = "read" => /\ i < NUMBER_OF_WELLHEADS
                      /\ BatchIndexes(records_to_insert) = GoodIndexes(i)
                      /\ conn = "open"
    /\ pc \in {"write", "commit"} =>
          /\ BatchIndexes(records_to_insert) = GoodIndexes(NUMBER_OF_WELLHEADS)
          /\ conn = "open"
    /\ pc = "commit" => pending = records_to_insert
    /\ pc = "cadence" /\ records_to_insert # <<>> =>
          /\ Len(persisted) >= Len(records_to_insert)
          /\ SubSeq(persisted, Len(persisted) - Len(records_to_insert) + 1, Len(persisted))
               = records_to_insert

\* C4 witness: the first wellhead's read gave an error result, the others were
\* decoded and the batch without it was committed.
C4_Witness ==
    /\ pc = "cadence"
    /\ read_errors = {0}
    /\ Len(records_to_insert) = NUMBER_OF_WELLHEADS - 1
    /\ persisted = records_to_insert
    /\ conn = "open"

\* C5: the persisted rows change only by a whole batch at a time: every step
\* either leaves them as they are or appends all records of the running
\* cycle's batch; a failed write or commit persists nothing.
C5_BatchAtomicity ==
    [][/\ persisted' # persisted =>
            /\ pc = "commit"
            /\ records_to_insert # <<>>
            /\ persisted' = persisted \o records_to_insert
       /\ pc' = "handler" => persisted' = persisted]_vars

\* C5 witness: a batch write failed after some of its rows were executed, and
\* nothing of it is persisted.
C5_Witness ==
    /\ pc = "handler"
    /\ exc = "DatabaseError"
    /\ Len(pending) > 0
    /\ Len(pending) < Len(records_to_insert)
    /\ persisted = <<>>

\* C6 (as claimed): every persisted record carries a timezone-aware UTC timestamp.
C6_PersistedTimestampsAware ==
    \A k \in 1..Len(persisted) : persisted[k].time.tzinfo = "UTC"

\* C7: the timestamp is taken once per cycle, at its start: all records of the
\* batch, and all rows of the open transaction, carry the timestamp of the
\* running cycle, whatever the clock showed when they were read, and a batch
\* holds at most one record per wellhead, in the order of the loop.
C7_OneTimestampPerCycle ==
    /\ \A k \in 1..Len(records_to_insert) : records_to_insert[k].time = current_timestamp
    /\ \A k \in 1..Len(pending) : pending[k].time = current_timestamp
    /\ \A k \in 1..Len(records_to_insert) : \A m \in 1..Len(records_to_insert) :
          k < m => records_to_insert[k].wellhead_id[2] < records_to_insert[m].wellhead_id[2]
    /\ pc \in {"read", "write", "commit"} => current_timestamp.t <= now

\* C7 witness: a full batch whose reads ended after the clock had moved on.
C7_Witness ==
    /\ pc = "write"
    /\ Len(records_to_insert) = NUMBER_OF_WELLHEADS
    /\ now > current_timestamp.t

Max(a, b) == IF a > b THEN a ELSE b

\* C8: at the end of a cycle main sleeps max(0, POLL_INTERVAL - elapsed): it
\* calls time.sleep exactly when that is positive, with that argument, which
\* is never negative and never more than the interval; otherwise the next
\* cycle starts at once.
C8_SleepsTheRemainder ==
    [][pc = "cadence" =>
         /\ sleep_arg' = Max(0, POLL_INTERVAL - elapsed')
         /\ sleep_arg' >= 0
         /\ sleep_arg' <= POLL_INTERVAL
         /\ (pc' = "sleep") <=> (sleep_arg' > 0)
         /\ (elapsed' >= POLL_INTERVAL) => pc' = "cycle_start"]_vars

\* C8 witness: a cycle overran the interval and the next one starts without a sleep.
C8_Witness ==
    /\ pc = "cycle_start"
    /\ cycles >= 1
    /\ elapsed > POLL_INTERVAL
    /\ TimeToWait(elapsed) < 0
    /\ sleep_arg = 0

\* C9 (as claimed): the relay thread and the server are started only with a
\* register map that has an entry.
C9_NothingStartedOnEmptyMap ==
    (updater = "running" \/ server_context = "created") => Entries(register_map) # {}

\* The two registers of an entry.
Window(m, e) == {m[e[1]][e[2]].register, m[e[1]][e[2]].register + 1}

\* C10 (as claimed): in the published register map the windows of distinct
\* entries are disjoint and every window lies in the store 0 .. STORE_SIZE - 1.
C10_WindowsDisjointAndInStore ==
    gw_pc \in {"built", "run_server", "serving"} =>
        /\ \A e1 \in Entries(register_map) : \A e2 \in Entries(register_map) :
              e1 # e2 => Window(register_map, e1) \cap Window(register_map, e2) = {}
        /\ \A e \in Entries(register_map) : Window(register_map, e) \subseteq 0..(STORE_SIZE - 1)

\* C11: for the kinds integer and boolean, decoding the two registers the
\* gateway's encoder produced for a value gives the value back: every signed
\* 32-bit integer for the kind integer, 0 (false) and 1 (true) for the kind
\* boolean.
C11_IntegerRoundTrip ==
    codec_pc = "decoded" /\ codec_value.j = "int" =>
        /\ codec_kind = "integer" => codec_out = [kind |-> "int", v |-> codec_value.v]
        /\ codec_kind = "boolean" /\ codec_value.v \in {0, 1} =>
              codec_out = [kind |-> "bool", v |-> (codec_value.v = 1)]

C11_Witness ==
    /\ codec_pc = "decoded"
    /\ codec_kind = "integer"
    /\ codec_value = JInt(MinInt32 + 1)
    /\ codec_regs = <<1, 32768>>
    /\ codec_out.v = MinInt32 + 1

\* The signed value of a 16-bit word read as the upper half of 32 bits.
SignedHigh(w) == IF w >= 32768 THEN w - 65536 ELSE w

\* C12: of the two registers written for a 32-bit value the first holds the
\* low-order 16 bits and the second the high-order 16 bits (of the two's
\* complement of an integer, of the bit pattern of a float), and the decoder
\* reads them in that order.
C12_LowWordFirst ==
    codec_pc \in {"encoded", "decoded"} =>
        /\ Len(codec_regs) = 2
        /\ \A k \in 1..2 : codec_regs[k] \in 0..65535
        /\ codec_kind \in {"integer", "boolean"} =>
              ToInt(codec_value) = SignedHigh(codec_regs[2]) * 65536 + codec_regs[1]
        /\ codec_kind = "float" =>
              /\ codec_regs[1] = codec_value.f32[2]
              /\ codec_regs[2] = codec_value.f32[1]
        /\ codec_pc = "decoded" /\ codec_kind = "integer" => codec_out.v = ToInt(codec_value)
        /\ codec_pc = "decoded" /\ codec_kind = "float" => codec_out.bits = codec_value.f32

C12_Witness ==
    /\ codec_pc = "decoded"
    /\ codec_kind = "integer"
    /\ codec_value = JInt(65536 + 2)
    /\ codec_regs[1] = 2
    /\ codec_regs[2] = 1

\* C13: for the kind boolean the encoder writes the integer 0 or 1 whatever
\* the input value is, and the decoder returns true exactly when the decoded
\* integer is not 0.
C13_BooleanEncodedAsZeroOrOne ==
    codec_kind = "boolean" /\ codec_pc \in {"encoded", "decoded"} =>
        /\ codec_regs \in {<<0, 0>>, <<1, 0>>}
        /\ codec_pc = "decoded" => codec_out.v = (Decode32BitInt(codec_regs, 1) # 0)

\* The relay is at a (param_code, value) item of a frame.
AtItem == relay_pc = "param" /\ pk <= Len(msg[dp].parameters)
CurCode == msg[dp].parameters[pk].code
CurValue == msg[dp].parameters[pk].value
\* The item's pair is in the register map.
CurMapped == AtItem /\ CurCode \in DOMAIN register_map[msg[dp].wellhead_id]
CurInfo == register_map[msg[dp].wellhead_id][CurCode]

\* C14: when the relay meets a mapped pair whose type is none of float,
\* integer and boolean (the catalog's "bool"), handling the pair ends in an
\* UnsupportedKindError that is surfaced; it is not passed over as a write of
\* no words (the store exists when the pair is handled).
C14_UnsupportedKindIsAnError ==
    [][/\ CurMapped
       /\ CurInfo.type \notin SupportedTypes
       /\ server_context = "created"
       /\ <<relay_pc, pk>>' # <<relay_pc, pk>>
       => relay_exc'.type = "UnsupportedKindError"]_vars

\* What a never written pair decodes to under a type.
ZeroOf(type) ==
    CASE type = "float" -> [kind |-> "float", bits |-> <<0, 0>>]
      [] type = "integer" -> [kind |-> "int", v |-> 0]
      [] type = "boolean" -> [kind |-> "bool", v |-> FALSE]

\* Every register of the store holds 0 when the store is allocated.
StoreStartsZeroed == \A a \in 0..(STORE_SIZE - 1) : InitialRegister(a) = 0

\* C15: every register the relay has not stored a word at holds 0 (the store
\* starts zeroed and no word other than 0 is found at an address the relay
\* did not store at), and a read of a pair the relay has not written is
\* answered with registers that decode to zero (false for a boolean) and the
\* reading goes into the batch.
C15_UnwrittenReadsZero ==
    /\ StoreStartsZeroed
    /\ \A a \in DOMAIN hr : a \notin written => hr[a] = 0
    /\ client_read.base_address >= 0 =>
          /\ client_read.appended
          /\ \A k \in 1..Len(parameter_config) :
                LET a == client_read.base_address + 2 * (k - 1)
                IN  a \notin written /\ a + 1 \notin written =>
                       client_read.decoded[k] = ZeroOf(parameter_config[k].type)

C15_Witness ==
    /\ client_read.base_address = REGISTERS_PER_WELLHEAD
    /\ 0 \in written
    /\ written \cap {REGISTERS_PER_WELLHEAD + k : k \in 0..5} = {}
    /\ client_read.decoded[1] = [kind |-> "float", bits |-> <<0, 0>>]
    /\ client_read.decoded[3] = [kind |-> "bool", v |-> FALSE]
    /\ client_read.appended

\* The whole message has been iterated.
MessageDone == msg # <<>> /\ dp = Len(msg) + 1

\* The pairs of a message the encoder has a branch for, with their windows.
SupportedPairs ==
    {<<f, k>> \in UNION {{<<f, k>> : k \in 1..Len(msg[f].parameters)} : f \in 1..Len(msg)} :
        /\ msg[f].wellhead_id \in DOMAIN register_map
        /\ msg[f].parameters[k].code \in DOMAIN register_map[msg[f].wellhead_id]
        /\ register_map[msg[f].wellhead_id][msg[f].parameters[k].code].type \in SupportedTypes}

\* C16: a pair that is not in the register map (unknown wellhead, or unknown
\* parameter of a known wellhead) is passed over: no register is written for
\* it, nothing is raised, the relay goes on with the next frame or the next
\* item, and the mapped pairs of the message are written all the same.
C16_UnknownPairSkipped ==
    /\ [][/\ relay_pc = "frame" /\ dp <= Len(msg) /\ msg[dp].has_id
             /\ msg[dp].wellhead_id \notin DOMAIN register_map /\ dp' # dp
             => /\ hr' = hr
                /\ relay_exc' = relay_exc
                /\ relay_pc' = "frame"
                /\ dp' = dp + 1
          /\ AtItem /\ ~CurMapped /\ pk' # pk
             => /\ hr' = hr
                /\ relay_exc' = relay_exc
                /\ relay_pc' = "param"
                /\ <<dp, pk>>' = <<dp, pk + 1>>]_vars
    /\ [](MessageDone =>
            \A q \in SupportedPairs :
               LET item == msg[q[1]].parameters[q[2]]
                   info == register_map[msg[q[1]].wellhead_id][item.code]
               IN  Encode(info.type, item.value).payload \in HistAt(info.register))

C16_Witness ==
    /\ msg = LineUnknown.frames
    /\ MessageDone
    /\ relay_exc.type = "none"
    /\ <<2, 1>> \in HistAt(2)
    /\ <<16416, 0>> \notin HistAt(50)

\* The two words the mapped type of a pair asks for.
ExpectedWords(type, value) ==
    IF type = "float" THEN Encode32BitFloat(ToFloat32(value))
    ELSE Encode32BitInt(ToInt(value))

\* C17: when the relay has gone through a frame, the two registers of every
\* mapped pair of the frame hold the two-word encoding of its value, whatever
\* the mapped type; and a step of the relay writes exactly the two registers
\* of the pair it is at.
C17_MappedPairsHoldEncoding ==
    /\ [](relay_pc = "frame" /\ dp > 1 /\ msg[dp - 1].wellhead_id \in DOMAIN register_map =>
            \A k \in 1..Len(msg[dp - 1].parameters) :
               LET item == msg[dp - 1].parameters[k]
                   known == register_map[msg[dp - 1].wellhead_id]
               IN  item.code \in DOMAIN known =>
                      <<Reg(known[item.code].register), Reg(known[item.code].register + 1)>>
                         = ExpectedWords(known[item.code].type, item.value))
    /\ [][written' # written =>
            /\ CurMapped
            /\ written' = written \cup {CurInfo.register, CurInfo.register + 1}]_vars

\* C18: no line the simulator prints ends the relay thread: a line that is
\* not JSON, is JSON of another shape, lacks a key, or carries a value that
\* cannot be converted or does not fit 32 bits is dropped and the loop goes on.
C18_MalformedLineDropped ==
    ~(relay_pc = "dead" /\ relay_exc.cause = "input")

\* C19: a read that covers the two registers of a mapped pair returns the two
\* words of one value: the initial zeros or a payload the relay stored there,
\* never one word of each.
C19_NoTornRead ==
    client_read.base_address >= 0 =>
        \A e \in Entries(register_map) :
           LET r == register_map[e[1]][e[2]].register
               at == r - client_read.base_address + 1
           IN  at >= 1 /\ at + 1 <= Len(client_read.registers) =>
                  <<client_read.registers[at], client_read.registers[at + 1]>>
                     \in {<<0, 0>>} \cup HistAt(r)

C19_Witness ==
    /\ relay_pc = "param"
    /\ Cardinality(HistAt(0)) = 2
    /\ client_read.base_address = 0
    /\ <<client_read.registers[1], client_read.registers[2]>> = <<0, 16416>>
    /\ <<Reg(0), Reg(1)>> = <<20972, 17562>>

\* The map build_register_map makes of the active rows.
RECURSIVE BuildMap(_, _)
BuildMap(rows, n) ==
    IF n = 0 THEN EmptyMap
    ELSE MapPut(BuildMap(rows, n - 1), rows[n].wellhead_id, rows[n].code,
                [register |-> rows[n].modbus_register, type |-> DataType(rows[n].code)])

\* C20: at every moment the global register_map is the map from before the
\* build (empty) or the map of all active rows, never a part of it; a build
\* that fails leaves the map from before.
C20_MapPublishedWhole ==
    /\ register_map \in {EmptyMap, BuildMap(ActiveRows(db_rows), Len(ActiveRows(db_rows)))}
    /\ gw_pc \in {"query", "build", "failed"} => register_map = EmptyMap

C20_Witness ==
    /\ gw_pc = "build"
    /\ Len(mappings) = 2
    /\ row = 1
    /\ temp_map # EmptyMap
    /\ temp_map # BuildMap(mappings, 2)
    /\ register_map = EmptyMap

\* C22: when the relay drops a message because a frame of it lacks a key, the
\* store is what it was when the message was read: no pair of an earlier
\* frame of the message has been written.
C22_DiscardedMessageLeavesStore ==
    [][relay_pc = "frame" /\ dp <= Len(msg) /\ relay_pc' = "poll" => hr' = msg_hr]_vars

\* C24: the relay leaves its loop only when every line the simulator printed
\* has been read: none is left in the pipe.
C24_LoopEndsWithPipeDrained ==
    relay_pc = "ended" => pipe = <<>>

\* C25: the relay handles a frame only when run_modbus_server has created the
\* store: while a message is being iterated server_context is not None.
C25_StoreCreatedBeforeFrames ==
    /\ relay_pc \in {"frame", "param"} => server_context = "created"
    /\ relay_exc.cause # "server_context"

\* C26: at most one storage connection is open at any time, main's conn is
\* the open one, and a connection is opened only when none is open.
C26_AtMostOneStorageConnection ==
    /\ [](open_conns <= 1 /\ (open_conns = 1 <=> conn = "open"))
    /\ [][open_conns' > open_conns => open_conns = 0]_vars

\* A reconnect after the transport connect failed behind a storage connect.
C26_Witness ==
    /\ pc = "connect_modbus"
    /\ open_conns = 1
    /\ connect_ret = FALSE
    /\ faults = 2
    /\ cycles = 1

\* C21: no cycle of run_simulation fails, and when a cycle has printed, it has
\* printed one line per cycle begun, holding one frame per wellhead of the
\* configuration with a value for every parameter of the wellhead, in order;
\* a parameter without a normal range (a valve state or command) has the
\* value 0 or 1.
C21_EveryCycleEmitsFullFrames ==
    /\ sim_pc # "crashed"
    /\ sim_pc = "sleep" =>
          /\ sim_lines = sim_cycles
          /\ Len(printed) = Len(sim_config)
          /\ \A w \in 1..Len(sim_config) :
                /\ printed[w].wellhead_id = sim_config[w].wellhead_id
                /\ Len(printed[w].parameters) = Len(sim_config[w].params)
                /\ \A k \in 1..Len(sim_config[w].params) :
                      /\ printed[w].parameters[k].code = sim_config[w].params[k].code
                      /\ ~sim_config[w].params[k].has_range =>
                            printed[w].parameters[k].value \in {0, 1000}

\* What the ingestion decoder returns for a value stored under a type.
DecodedAs(type, value) ==
    CASE type = "float" -> [kind |-> "float", bits |-> ToFloat32(value)]
      [] type = "integer" -> [kind |-> "int", v |-> ToInt(value)]
      [] type = "boolean" -> [kind |-> "bool", v |-> (ToInt(value) # 0)]

\* C23: in the block layout, the value a frame carries for the k-th parameter
\* (k from 0) is in registers i * 50 + 2k and i * 50 + 2k + 1 once the frame of
\* wellhead i is stored, the ingestion decodes the k-th reading from them,
\* also when other parameters of the frame are missing or of a type without
\* an encoding, and the words of a frame stay inside the wellhead's 50
\* registers.
C23_BlockPositionsAgree ==
    /\ blk_pc \in {"stored", "read"} =>
          /\ Len(BuilderWords(parameter_config, wellhead_data, 1)) <= REGISTERS_PER_WELLHEAD
          /\ \A k \in 1..Len(parameter_config) :
                wellhead_data[k].j # "none" /\ parameter_config[k].type \in SupportedTypes =>
                   LET a == BaseAddress(wellhead_index) + 2 * (k - 1)
                   IN  <<Reg(a), Reg(a + 1)>>
                          = Encode(parameter_config[k].type, wellhead_data[k]).payload
    /\ blk_pc = "read" =>
          \A k \in 1..Len(parameter_config) :
             wellhead_data[k].j # "none" /\ parameter_config[k].type \in SupportedTypes =>
                client_read.decoded[k] = DecodedAs(parameter_config[k].type, wellhead_data[k])
====
